---- MODULE Spec2Model ----
(***************************************************************************)
(* Systemic Risk Index: the two notebooks of the repository as state       *)
(* machines.                                                               *)
(*   stage 1  Data Sourcing & Preprocessing   (src/unnamed/part_000)       *)
(*   stage 2  Systemic Risk Index Creation    (src/notebooks/03-...ipynb)  *)
(* A notebook run executes its cells top to bottom and stops at the first  *)
(* cell that raises.  The two stages are separate processes that share     *)
(* only the files under ../data.                                           *)
(***************************************************************************)
EXTENDS Integers, Sequences, FiniteSets, TLC

VARIABLES
    yahoo,          \* market data provider: what yf.download will answer
    fredsrv,        \* macro data provider: what fred.get_series will answer
    pc1,            \* stage 1: the statement the run is at
    yf_data,        \* stage 1: frame returned by yf.download(...)["Close"]
    fred_data,      \* stage 1: frame assembled by the get_series loop
    all_data,       \* stage 1: pd.concat result
    resampled,      \* stage 1: weekly_data as resample("W-FRI").last() returns it
    weekly_data,    \* stage 1: resampled, filled, truncated panel
    files,          \* the ../data directory: path -> file
    pc2,            \* stage 2: the statement the run is at
    df,             \* stage 2: frame read from cleaned_market_data.csv
    risk_factors,   \* stage 2: the selected columns
    scaled_factors, \* stage 2: StandardScaler output
    loadings,       \* stage 2: pca.components_[0]
    sri_raw,        \* stage 2: the latent factor (PC1 scores)
    sri_scaled,     \* stage 2: MinMaxScaler output
    error2          \* stage 2: the exception that stopped the run, if any

vars == <<yahoo, fredsrv, pc1, yf_data, fred_data, all_data, resampled,
          weekly_data, files,
          pc2, df, risk_factors, scaled_factors, loadings, sri_raw, sri_scaled,
          error2>>

stage1vars == <<yahoo, fredsrv, pc1, yf_data, fred_data, all_data, resampled,
                weekly_data>>
stage2vars == <<pc2, df, risk_factors, scaled_factors, loadings, sri_raw,
                sri_scaled, error2>>

----------------------------------------------------------------------------
(* Bounds of the model *)

\* days modelled, counted from the start date 2000-01-01 (day 0)
MaxDay == 16
\* observations one daily series may hold within the modelled days
MaxObs == 2
\* rows of the artifact handed to stage 2
MaxRows == 3

Days == 0 .. (MaxDay - 1)
\* the days on which the modelled providers publish
ObsDays == {d \in Days : d % 5 = 0}
ObsSets == {S \in SUBSET ObsDays : Cardinality(S) <= MaxObs}
\* a monthly series has at most one release within the modelled days
MonthlyObsSets == {S \in ObsSets : Cardinality(S) <= 1}

----------------------------------------------------------------------------
(* Generic helpers *)

\* an absent cell (pandas NaN); no series carries it as a value
NaN == 0 - 1

Range(s) == {s[i] : i \in DOMAIN s}

RECURSIVE SortedSeq(_)
SortedSeq(S) ==
    IF S = {} THEN <<>>
    ELSE LET m == CHOOSE x \in S : \A y \in S : x <= y
         IN  <<m>> \o SortedSeq(S \ {m})

RECURSIVE SumSeq(_)
SumSeq(s) == IF s = <<>> THEN 0 ELSE Head(s) + SumSeq(Tail(s))

MinOf(S) == CHOOSE x \in S : \A y \in S : x <= y
MaxOf(S) == CHOOSE x \in S : \A y \in S : x >= y

\* a DataFrame: ordered row labels, ordered column labels, one cell per pair
Frame(idx, cols, cell(_, _)) ==
    [index |-> idx, columns |-> cols,
     data |-> [c \in Range(cols) |-> [d \in Range(idx) |-> cell(c, d)]]]

EmptyCell(c, d) == NaN
\* pd.DataFrame()
EmptyFrame == Frame(<<>>, <<>>, EmptyCell)

\* the value a provider reports for a series on a day: the observation's day,
\* so that a cell of a later frame tells which observation it carries
Quote(d) == d

----------------------------------------------------------------------------
(* Stage 1: configuration *)

yf_tickers == <<"SPY", "GLD", "TLT", "UUP", "^VIX", "^MOVE">>
fred_keys == <<"T10Y2Y", "BAMLC0A0CMEY", "USRECP">>
fred_tickers == [k \in Range(fred_keys) |-> k]

CleanedPath == "../data/cleaned_market_data.csv"
FinalPath == "../data/systemic_risk_index.csv"

----------------------------------------------------------------------------
(* Stage 1: the data sources *)

\* yf.download(yf_tickers, ...)["Close"]: one column per requested ticker, one
\* row per day on which any ticker has a close; a ticker without data is an
\* all-NaN column
YfDownload ==
    LET idx == SortedSeq(UNION {yahoo.obs[t] : t \in Range(yf_tickers)})
        cell(t, d) == IF d \in yahoo.obs[t] THEN Quote(d) ELSE NaN
    IN  Frame(idx, yf_tickers, cell)

\* DataFrame.empty: any axis of length zero
IsEmpty(f) == Len(f.index) = 0 \/ Len(f.columns) = 0

\* fred.get_series(series_id, ...): a Series indexed by its observation days
GetSeries(series_id) ==
    LET obs == fredsrv[series_id]
    IN  [index |-> SortedSeq(obs), data |-> [d \in obs |-> Quote(d)]]


\* fred_data[key] = series: the first non-empty series gives the frame its
\* index; every later series is reindexed to the frame's index
SetItem(f, key, s) ==
    LET adopt == Len(f.index) = 0 /\ Len(s.index) > 0
        idx == IF adopt THEN s.index ELSE f.index
        cols == IF key \in Range(f.columns) THEN f.columns
                ELSE Append(f.columns, key)
        cell(c, d) ==
            IF c = key
            THEN IF d \in Range(s.index) THEN s.data[d] ELSE NaN
            ELSE IF d \in Range(f.index) THEN f.data[c][d] ELSE NaN
    IN  Frame(idx, cols, cell)

----------------------------------------------------------------------------
(* Stage 1: consolidation and cleaning *)

\* pd.concat([a, b], axis=1, join="outer")
Concat(a, b) ==
    LET idx == SortedSeq(Range(a.index) \cup Range(b.index))
        cell(c, d) ==
            IF c \in Range(a.columns)
            THEN IF d \in Range(a.index) THEN a.data[c][d] ELSE NaN
            ELSE IF d \in Range(b.index) THEN b.data[c][d] ELSE NaN
    IN  Frame(idx, a.columns \o b.columns, cell)

\* Monday = 0 ... Sunday = 6; day 0 is 2000-01-01, a Saturday
Weekday(d) == (d + 5) % 7

\* the label of the "W-FRI" bin that holds day d: the Friday on or after d
WeekEnding(d) == d + ((4 - Weekday(d) + 7) % 7)

\* f.resample("W-FRI").last(): one row per week from the first bin to the
\* last, each cell the last non-NaN value of its column within the bin
ResampleLast(f) ==
    IF Len(f.index) = 0 THEN Frame(<<>>, f.columns, EmptyCell)
    ELSE LET first == WeekEnding(f.index[1])
             last == WeekEnding(f.index[Len(f.index)])
             idx == [i \in 1 .. ((last - first) \div 7 + 1) |-> first + 7 * (i - 1)]
             cell(c, w) ==
                 LET seen == {d \in Range(f.index) :
                                 w - 7 < d /\ d <= w /\ f.data[c][d] # NaN}
                 IN  IF seen = {} THEN NaN ELSE f.data[c][MaxOf(seen)]
         IN  Frame(idx, f.columns, cell)

\* the value ffill leaves at position i of a column: scan back to the nearest
\* non-NaN cell
RECURSIVE FfillAt(_, _, _)
FfillAt(col, idx, i) ==
    IF col[idx[i]] # NaN THEN col[idx[i]]
    ELSE IF i = 1 THEN NaN
    ELSE FfillAt(col, idx, i - 1)

\* variant: the filled frame is discarded (ffill without assigning it back)
FfillNotInPlace(f) == f

\* f.ffill()
Ffill(f) ==
    [f EXCEPT !.data =
        [c \in Range(f.columns) |->
            [d \in Range(f.index) |->
                FfillAt(f.data[c], f.index,
                        CHOOSE i \in DOMAIN f.index : f.index[i] = d)]]]

\* variant: f.dropna(how="all"), drop only the rows that hold nothing
DropnaAll(f) ==
    LET some(d) == \E c \in Range(f.columns) : f.data[c][d] # NaN
        idx == SelectSeq(f.index, some)
        cell(c, d) == f.data[c][d]
    IN  Frame(idx, f.columns, cell)

\* f.dropna(): drop every row that holds a NaN
Dropna(f) ==
    LET complete(d) == \A c \in Range(f.columns) : f.data[c][d] # NaN
        idx == SelectSeq(f.index, complete)
        cell(c, d) == f.data[c][d]
    IN  Frame(idx, f.columns, cell)

----------------------------------------------------------------------------
(* Files: DataFrame.to_csv(path) and pd.read_csv(path) *)

NoFile == [exists |-> FALSE, header |-> <<>>, rows |-> <<>>]

\* open(path, "w"): the file exists, and is empty, from here on
CsvOpen == [exists |-> TRUE, header |-> <<>>, rows |-> <<>>]

\* the lines to_csv writes for a frame: the header, then one line per row
CsvRow(f, i) ==
    [date |-> f.index[i],
     cells |-> [c \in Range(f.columns) |-> f.data[c][f.index[i]]]]

CsvDone(file, f) ==
    Len(file.header) = 1 /\ Len(file.rows) = Len(f.index)

\* the file after to_csv has written its next line
CsvWriteNext(file, f) ==
    IF Len(file.header) = 0
    THEN [file EXCEPT !.header = <<f.columns>>]
    ELSE [file EXCEPT !.rows = Append(@, CsvRow(f, Len(@) + 1))]

\* the file to_csv leaves when it runs to completion
CsvOf(f) ==
    [exists |-> TRUE, header |-> <<f.columns>>,
     rows |-> [i \in DOMAIN f.index |-> CsvRow(f, i)]]

\* the frame read_csv(path, index_col=0) builds from what the file holds
CsvFrame(file) ==
    LET cols == file.header[1]
        idx == [i \in DOMAIN file.rows |-> file.rows[i].date]
        cell(c, d) ==
            LET i == CHOOSE j \in DOMAIN file.rows : file.rows[j].date = d
            IN  file.rows[i].cells[c]
    IN  Frame(idx, cols, cell)

----------------------------------------------------------------------------
(* Stage 1: the run *)

\* cell d5ad6fc1, first half: download, the empty check, sys.exit on failure
DownloadYf ==
    /\ pc1 = "download_yf"
    /\ IF yahoo.raises
       THEN /\ pc1' = "exited"
            /\ UNCHANGED yf_data
       ELSE /\ yf_data' = YfDownload
            /\ pc1' = IF IsEmpty(YfDownload) THEN "exited" ELSE "download_fred"
    /\ UNCHANGED <<yahoo, fredsrv, fred_data, all_data, resampled, weekly_data, files>>
    /\ UNCHANGED stage2vars

\* cell d5ad6fc1, second half: one iteration of the get_series loop
FredGetSeries ==
    /\ pc1 = "download_fred"
    /\ LET i == Len(fred_data.columns) + 1
           key == fred_keys[i]
       IN  /\ fred_data' = SetItem(fred_data, key, GetSeries(fred_tickers[key]))
           /\ pc1' = IF i = Len(fred_keys) THEN "consolidate" ELSE "download_fred"
    /\ UNCHANGED <<yahoo, fredsrv, yf_data, all_data, resampled, weekly_data, files>>
    /\ UNCHANGED stage2vars

\* cell phase2-code: concat, resample, ffill, dropna
ConsolidateAndClean ==
    /\ pc1 = "consolidate"
    /\ all_data' = Concat(yf_data, fred_data)
    /\ resampled' = ResampleLast(Concat(yf_data, fred_data))
    /\ weekly_data' = Dropna(Ffill(ResampleLast(Concat(yf_data, fred_data))))
    /\ pc1' = "save"
    /\ UNCHANGED <<yahoo, fredsrv, yf_data, fred_data, files>>
    /\ UNCHANGED stage2vars

\* cell 46517f4f: weekly_data.to_csv(output_path) opens the file ...
SaveOpen ==
    /\ pc1 = "save"
    /\ files' = [files EXCEPT ![CleanedPath] = CsvOpen]
    /\ pc1' = "writing"
    /\ UNCHANGED <<yahoo, fredsrv, yf_data, fred_data, all_data, resampled,
                   weekly_data>>
    /\ UNCHANGED stage2vars

\* ... writes it line by line ...
SaveWrite ==
    /\ pc1 = "writing"
    /\ ~CsvDone(files[CleanedPath], weekly_data)
    /\ files' = [files EXCEPT ![CleanedPath] = CsvWriteNext(@, weekly_data)]
    /\ UNCHANGED stage1vars
    /\ UNCHANGED stage2vars

\* ... and closes it
SaveClose ==
    /\ pc1 = "writing"
    /\ CsvDone(files[CleanedPath], weekly_data)
    /\ pc1' = "done"
    /\ UNCHANGED <<yahoo, fredsrv, yf_data, fred_data, all_data, resampled,
                   weekly_data, files>>
    /\ UNCHANGED stage2vars

\* the run is interrupted, or the write fails, while the file is open;
\* nothing in the notebook removes what was written
SaveInterrupted ==
    /\ pc1 = "writing"
    /\ pc1' = "failed"
    /\ UNCHANGED <<yahoo, fredsrv, yf_data, fred_data, all_data, resampled,
                   weekly_data, files>>
    /\ UNCHANGED stage2vars

----------------------------------------------------------------------------
(* Stage 1: what the providers may hold *)

\* the tickers Yahoo has no data for: none, or one; the frame treats every
\* column alike, so the first and the last ticker stand for the six
FailedSets == {{}, {yf_tickers[1]}, {yf_tickers[Len(yf_tickers)]}}

YahooWorlds ==
    {[raises |-> TRUE, obs |-> [t \in Range(yf_tickers) |-> {}]]}
    \cup {[raises |-> FALSE,
           obs |-> [t \in Range(yf_tickers) |-> IF t \in failed THEN {} ELSE S]] :
            S \in ObsSets, failed \in FailedSets}

FredWorlds ==
    {w \in [Range(fred_keys) -> ObsSets] : w["USRECP"] \in MonthlyObsSets}

\* stage 2 before its first cell has run: nothing is bound yet
NoScaled == [index |-> <<>>, columns |-> <<>>, num |-> <<>>, den2 |-> <<>>]
NoScores == [num |-> <<>>, den2 |-> 1]
NoError == [kind |-> "none", labels |-> {}]

Stage2Idle ==
    /\ pc2 = "load"
    /\ df = EmptyFrame
    /\ risk_factors = EmptyFrame
    /\ scaled_factors = NoScaled
    /\ loadings = <<>>
    /\ sri_raw = NoScores
    /\ sri_scaled = <<>>
    /\ error2 = NoError

Stage1Start ==
    /\ pc1 = "download_yf"
    /\ yf_data = EmptyFrame
    /\ fred_data = EmptyFrame
    /\ all_data = EmptyFrame
    /\ resampled = EmptyFrame
    /\ weekly_data = EmptyFrame

InitStage1 ==
    /\ yahoo \in YahooWorlds
    /\ fredsrv \in FredWorlds
    /\ Stage1Start
    /\ files = [p \in {CleanedPath, FinalPath} |-> NoFile]
    /\ Stage2Idle

NextStage1 ==
    \/ DownloadYf
    \/ FredGetSeries
    \/ ConsolidateAndClean
    \/ SaveOpen
    \/ SaveWrite
    \/ SaveClose

SpecStage1 == InitStage1 /\ [][NextStage1]_vars


----------------------------------------------------------------------------
(* Stage 2: numbers                                                        *)
(* The data are integers; a standardized value, a loading and a score are  *)
(* kept exactly, as a numerator over the square root of a positive         *)
(* integer (num / sqrt(den2)); a rescaled value is a fraction num / den.   *)

Sq(x) == x * x

\* the columns stage 2 selects (STEP 1)
risk_factor_cols == <<"VIX", "MOVE", "BAMLC0A0CMEY">>

\* the column the orientation of the index is judged by
ReferenceCol == risk_factor_cols[1]

\* MinMaxScaler(feature_range=(0, 100))
FeatureMin == 0
FeatureMax == 100

ColSum(f, c) == SumSeq([i \in DOMAIN f.index |-> f.data[c][f.index[i]]])

\* N * (x - mean) for every cell of column c, N the number of rows
Centred(f, c) ==
    [d \in Range(f.index) |-> Len(f.index) * f.data[c][d] - ColSum(f, c)]

\* N^2 times the population variance of column c: N * sum(x^2) - sum(x)^2
VarNum(f, c) ==
    Len(f.index) * SumSeq([i \in DOMAIN f.index |-> Sq(f.data[c][f.index[i]])])
    - Sq(ColSum(f, c))

\* StandardScaler().fit_transform(f): z = (x - mean) / scale per column, with
\* scale = sqrt(variance), and scale = 1 for a column of zero variance
\* (sklearn's _handle_zeros_in_scale).  z = num / sqrt(den2), with
\* num = N * (x - mean) and den2 = (N * scale)^2.
StandardScale(f) ==
    [index |-> f.index, columns |-> f.columns,
     num |-> [c \in Range(f.columns) |-> Centred(f, c)],
     den2 |-> [c \in Range(f.columns) |->
                 IF VarNum(f, c) = 0 THEN Sq(Len(f.index)) ELSE VarNum(f, c)]]

\* the three selected columns, by position
Col(j) == risk_factor_cols[j]

\* sum over the three selected columns
Sum3(g(_)) == g(1) + g(2) + g(3)

Triple(g(_)) == <<g(1), g(2), g(3)>>

\* Z^T Z up to the column scales: the Gram matrix of the numerators
Gram(sf) ==
    LET G(a, b) == SumSeq([i \in DOMAIN sf.index |->
                              sf.num[Col(a)][sf.index[i]] * sf.num[Col(b)][sf.index[i]]])
        row(a) == LET g(b) == G(a, b) IN Triple(g)
    IN  Triple(row)

\* u describes the unit vector v with v[j] proportional to sqrt(den2[j]) * u[j].
\* v is a first principal axis of Z iff Z^T Z v = lambda v with lambda the
\* largest eigenvalue, that is A u = lambda D u and lambda D - A positive
\* semidefinite (A the Gram matrix, D = diag(den2)).  With lambda = p / q the
\* matrix M = p D - q A has u in its kernel, so its determinant is zero and it
\* is positive semidefinite iff its principal minors of order 1 and 2 are >= 0.
IsPrincipalAxis(A, D, u) ==
    LET Au == LET r(a) == (LET g(b) == A[a][b] * u[b] IN Sum3(g)) IN Triple(r)
        Du == LET r(a) == D[a] * u[a] IN Triple(r)
        p == LET g(a) == u[a] * Au[a] IN Sum3(g)
        q == LET g(a) == u[a] * Du[a] IN Sum3(g)
        M == LET r(a) ==
                     (LET g(b) == (IF a = b THEN p * D[a] ELSE 0) - q * A[a][b]
                      IN  Triple(g))
             IN  Triple(r)
        Minor2(a, b) == M[a][a] * M[b][b] - M[a][b] * M[b][a]
    IN  /\ \A a \in 1 .. 3 : q * Au[a] = p * Du[a]
        /\ \A a \in 1 .. 3 : M[a][a] >= 0
        /\ Minor2(1, 2) >= 0 /\ Minor2(1, 3) >= 0 /\ Minor2(2, 3) >= 0

\* the axes the model represents: every coordinate of u is -1, 0 or 1
LoadValues == {0 - 1, 0, 1}

AxisCandidates ==
    {u \in [1 .. 3 -> LoadValues] : \E j \in 1 .. 3 : u[j] # 0}

\* the axes PCA(n_components=1).fit may return: the library fixes neither
\* the sign nor, when the largest eigenvalue is repeated, the direction
PrincipalAxes(sf) ==
    LET A == Gram(sf)
        D == LET r(j) == sf.den2[Col(j)] IN Triple(r)
    IN  {u \in AxisCandidates : IsPrincipalAxis(A, D, u)}

Sign(x) == IF x > 0 THEN 1 ELSE IF x < 0 THEN 0 - 1 ELSE 0

\* squared length of the vector (sqrt(den2[j]) * u[j])
Norm2(sf, u) == LET g(j) == sf.den2[Col(j)] * Sq(u[j]) IN Sum3(g)

\* pca.components_[0] for the axis u, as a Series over the selected columns:
\* v[c] = sgn * sqrt(sq_num / sq_den)
Components(sf, u) ==
    [c \in Range(risk_factor_cols) |->
        LET j == CHOOSE k \in 1 .. 3 : Col(k) = c
        IN  [sgn |-> Sign(u[j]), sq_num |-> sf.den2[c] * Sq(u[j]),
             sq_den |-> Norm2(sf, u)]]

\* pca.fit_transform(Z) for the axis u: the projection of every row on v,
\* score = num / sqrt(den2)
Scores(sf, u) ==
    [num |-> [i \in DOMAIN sf.index |->
                 LET g(j) == sf.num[Col(j)][sf.index[i]] * u[j] IN Sum3(g)],
     den2 |-> Norm2(sf, u)]

\* variant: MinMaxScaler() with its default feature_range=(0, 1)
MinMaxScaleDefaultRange(x) ==
    LET lo == MinOf(Range(x.num))
        hi == MaxOf(Range(x.num))
    IN  [i \in DOMAIN x.num |->
            IF hi = lo
            THEN [num |-> 0, den |-> 1]
            ELSE [num |-> x.num[i] - lo, den |-> hi - lo]]

\* MinMaxScaler(feature_range=(0, 100)).fit_transform(x):
\* x * scale_ + min_, scale_ = (100 - 0) / range, min_ = 0 - min * scale_,
\* with range replaced by 1 when it is zero (_handle_zeros_in_scale)
MinMaxScale(x) ==
    LET lo == MinOf(Range(x.num))
        hi == MaxOf(Range(x.num))
    IN  [i \in DOMAIN x.num |->
            IF hi = lo
            THEN [num |-> FeatureMin, den |-> 1]
            ELSE [num |-> FeatureMin * (hi - lo)
                          + (FeatureMax - FeatureMin) * (x.num[i] - lo),
                  den |-> hi - lo]]

----------------------------------------------------------------------------
(* Stage 2: the run *)

Raise(kind, labels) == [kind |-> kind, labels |-> labels]

\* variant: an error that names every requested label once one is missing
MissingLabelsAll(columns, keys) ==
    IF Range(keys) \subseteq Range(columns) THEN {} ELSE Range(keys)

\* the labels df[[...]] does not find among the columns
MissingLabels(columns, keys) == {k \in Range(keys) : k \notin Range(columns)}

\* cell 0b4ead3d: pd.read_csv("../data/cleaned_market_data.csv", index_col=0)
LoadData ==
    /\ pc2 = "load"
    /\ LET file == files[CleanedPath]
       IN  IF ~file.exists
           THEN /\ pc2' = "failed"
                /\ error2' = Raise("FileNotFoundError", {})
                /\ UNCHANGED df
           ELSE IF Len(file.header) = 0
           THEN /\ pc2' = "failed"
                /\ error2' = Raise("EmptyDataError", {})
                /\ UNCHANGED df
           ELSE /\ df' = CsvFrame(file)
                /\ pc2' = "select"
                /\ UNCHANGED error2
    /\ UNCHANGED <<risk_factors, scaled_factors, loadings, sri_raw, sri_scaled>>
    /\ UNCHANGED <<files>>
    /\ UNCHANGED stage1vars

\* cell cc250e62 STEP 1: risk_factors = df[["VIX", "MOVE", "BAMLC0A0CMEY"]]
SelectColumns ==
    /\ pc2 = "select"
    /\ LET missing == MissingLabels(df.columns, risk_factor_cols)
           cell(c, d) == df.data[c][d]
       IN  IF missing # {}
           THEN /\ pc2' = "failed"
                /\ error2' = Raise("KeyError", missing)
                /\ UNCHANGED risk_factors
           ELSE /\ risk_factors' = Frame(df.index, risk_factor_cols, cell)
                /\ pc2' = "standardize"
                /\ UNCHANGED error2
    /\ UNCHANGED <<df, scaled_factors, loadings, sri_raw, sri_scaled, files>>
    /\ UNCHANGED stage1vars

\* STEP 2: scaler.fit_transform(risk_factors); a frame without rows is refused
Standardize ==
    /\ pc2 = "standardize"
    /\ IF Len(risk_factors.index) = 0
       THEN /\ pc2' = "failed"
            /\ error2' = Raise("ValueError", {})
            /\ UNCHANGED scaled_factors
       ELSE /\ scaled_factors' = StandardScale(risk_factors)
            /\ pc2' = "pca"
            /\ UNCHANGED error2
    /\ UNCHANGED <<df, risk_factors, loadings, sri_raw, sri_scaled, files>>
    /\ UNCHANGED stage1vars

\* STEP 3 - STEP 5: pca.fit_transform, sri_raw, loadings (printed, not used)
ApplyPCA ==
    /\ pc2 = "pca"
    /\ \E u \in PrincipalAxes(scaled_factors) :
          /\ loadings' = Components(scaled_factors, u)
          /\ sri_raw' = Scores(scaled_factors, u)
    /\ pc2' = "rescale"
    /\ UNCHANGED <<df, risk_factors, scaled_factors, sri_scaled, error2, files>>
    /\ UNCHANGED stage1vars

\* STEP 6: min_max_scaler.fit_transform(sri_raw); df["SRI"] = sri_scaled
Rescale ==
    /\ pc2 = "rescale"
    /\ sri_scaled' = MinMaxScale(sri_raw)
    /\ LET cell(c, d) ==
               IF c = "SRI"
               THEN MinMaxScale(sri_raw)[CHOOSE i \in DOMAIN df.index : df.index[i] = d]
               ELSE df.data[c][d]
       IN  df' = Frame(df.index, Append(df.columns, "SRI"), cell)
    /\ pc2' = "save"
    /\ UNCHANGED <<risk_factors, scaled_factors, loadings, sri_raw, error2, files>>
    /\ UNCHANGED stage1vars

\* cell e9e2d72f: df.to_csv("../data/systemic_risk_index.csv") opens the file ...
FinalOpen ==
    /\ pc2 = "save"
    /\ files' = [files EXCEPT ![FinalPath] = CsvOpen]
    /\ pc2' = "writing"
    /\ UNCHANGED <<df, risk_factors, scaled_factors, loadings, sri_raw, sri_scaled,
                   error2>>
    /\ UNCHANGED stage1vars

\* ... writes it line by line ...
FinalWrite ==
    /\ pc2 = "writing"
    /\ ~CsvDone(files[FinalPath], df)
    /\ files' = [files EXCEPT ![FinalPath] = CsvWriteNext(@, df)]
    /\ UNCHANGED stage2vars
    /\ UNCHANGED stage1vars

\* ... and closes it
FinalClose ==
    /\ pc2 = "writing"
    /\ CsvDone(files[FinalPath], df)
    /\ pc2' = "done"
    /\ UNCHANGED <<df, risk_factors, scaled_factors, loadings, sri_raw, sri_scaled,
                   error2, files>>
    /\ UNCHANGED stage1vars

----------------------------------------------------------------------------
(* Stage 2: the artifacts it may be given *)

\* the values a cell of a modelled risk-factor column may take
Vals == {0, 1}

\* the column names a modelled artifact may carry, in file order
ArtifactColumns == <<"SPY">> \o risk_factor_cols

\* the week-ending dates of an artifact of n rows
ArtifactIndex(n) == [i \in 1 .. n |-> 7 * i - 1]

\* the columns of an artifact that are no risk factor hold the row number
OtherColumn(n) == [d \in Range(ArtifactIndex(n)) |-> (d + 1) \div 7]

\* an artifact: a dense weekly table of n rows with the columns cs, the
\* risk-factor columns among them holding risk
Artifact(n, cs, risk) ==
    [index |-> ArtifactIndex(n),
     columns |-> LET has(c) == c \in cs IN SelectSeq(ArtifactColumns, has),
     data |-> [c \in cs |-> IF c \in DOMAIN risk THEN risk[c] ELSE OtherColumn(n)]]

\* the model represents the run only where it represents an axis PCA returns
Representable(f) ==
    IF MissingLabels(f.columns, risk_factor_cols) # {} \/ Len(f.index) = 0
    THEN TRUE
    ELSE LET cell(c, d) == f.data[c][d]
         IN  PrincipalAxes(StandardScale(Frame(f.index, risk_factor_cols, cell))) # {}

Stage1Finished ==
    /\ yahoo \in {w \in YahooWorlds : w.raises}
    /\ fredsrv \in {w \in FredWorlds : \A k \in DOMAIN w : w[k] = {}}
    /\ pc1 = "done"
    /\ yf_data = EmptyFrame
    /\ fred_data = EmptyFrame
    /\ all_data = EmptyFrame
    /\ resampled = EmptyFrame
    /\ weekly_data = EmptyFrame

InitStage2 ==
    /\ Stage1Finished
    /\ \E n \in 0 .. MaxRows, cs \in SUBSET Range(ArtifactColumns) :
          \E risk \in [cs \cap Range(risk_factor_cols) ->
                          [Range(ArtifactIndex(n)) -> Vals]] :
             /\ Representable(Artifact(n, cs, risk))
             /\ files = [p \in {CleanedPath, FinalPath} |->
                            IF p = CleanedPath THEN CsvOf(Artifact(n, cs, risk))
                            ELSE NoFile]
    /\ Stage2Idle

NextStage2 ==
    \/ LoadData
    \/ SelectColumns
    \/ Standardize
    \/ ApplyPCA
    \/ Rescale
    \/ FinalOpen
    \/ FinalWrite
    \/ FinalClose

SpecStage2 == InitStage2 /\ [][NextStage2]_vars


----------------------------------------------------------------------------
(* The hand-over: stage 1 writes cleaned_market_data.csv while stage 2, a  *)
(* separate process, may read it at any moment                             *)

InitHandoff ==
    /\ yahoo \in {w \in YahooWorlds :
                     ~w.raises /\ \A t \in DOMAIN w.obs : w.obs[t] = w.obs["SPY"]}
    /\ fredsrv \in {w \in FredWorlds : \A k \in DOMAIN w : w[k] = w["USRECP"]}
    /\ Stage1Start
    /\ files = [p \in {CleanedPath, FinalPath} |-> NoFile]
    /\ Stage2Idle

NextHandoff ==
    \/ DownloadYf
    \/ FredGetSeries
    \/ ConsolidateAndClean
    \/ SaveOpen
    \/ SaveWrite
    \/ SaveClose
    \/ SaveInterrupted
    \/ LoadData
    \/ SelectColumns

SpecHandoff == InitHandoff /\ [][NextHandoff]_vars

----------------------------------------------------------------------------
(* Claims about stage 1 *)

Stage1Cleaned == pc1 \in {"save", "writing", "done"}

\* the weekly panel before forward-fill
WeeklyPanel == resampled

\* the weeks, up to week w, in which column c has a value in the weekly panel
SeenBy(c, w) ==
    {v \in Range(WeeklyPanel.index) : v <= w /\ WeeklyPanel.data[c][v] # NaN}

\* the weeks by which every column has had a value
CompleteWeeks ==
    {w \in Range(WeeklyPanel.index) :
        \A c \in Range(WeeklyPanel.columns) : SeenBy(c, w) # {}}

\* C1: the cleaned panel, in memory and as persisted, has no absent cell and
\* its index is strictly increasing in steps of exactly one week.
C1_CleanedPanelDenseWeekly ==
    /\ Stage1Cleaned =>
          /\ \A c \in Range(weekly_data.columns) : \A d \in Range(weekly_data.index) :
                weekly_data.data[c][d] # NaN
          /\ \A i \in 1 .. (Len(weekly_data.index) - 1) :
                weekly_data.index[i + 1] = weekly_data.index[i] + 7
    /\ pc1 = "done" =>
          LET rows == files[CleanedPath].rows
          IN  /\ files[CleanedPath].exists
              /\ files[CleanedPath].header = <<yf_tickers \o fred_keys>>
              /\ \A i \in DOMAIN rows : \A c \in DOMAIN rows[i].cells :
                    rows[i].cells[c] # NaN
              /\ \A i \in 1 .. (Len(rows) - 1) : rows[i + 1].date = rows[i].date + 7

\* C1 witness: every column has an observation, the persisted panel has at
\* least two rows, and one of its cells was absent before forward-fill.
C1_Witness ==
    /\ pc1 = "done"
    /\ \A t \in Range(yf_tickers) : yahoo.obs[t] # {}
    /\ \A k \in Range(fred_keys) : fredsrv[k] # {}
    /\ Len(files[CleanedPath].rows) >= 2
    /\ \E c \in Range(weekly_data.columns) : \E w \in Range(weekly_data.index) :
          WeeklyPanel.data[c][w] = NaN

\* C9: the retained rows are exactly the weeks from the first complete week
\* onward, in order, and each holds per column the most recent value the
\* weekly panel has at or before that week.
C9_DropsExactlyLeadingPrefix ==
    Stage1Cleaned =>
        LET complete == CompleteWeeks
        IN  /\ weekly_data.index = SortedSeq(complete)
            /\ \A w \in Range(WeeklyPanel.index) :
                  (\E v \in complete : v <= w) => w \in complete
            /\ \A w \in complete : \A c \in Range(weekly_data.columns) :
                  weekly_data.data[c][w] = WeeklyPanel.data[c][MaxOf(SeenBy(c, w))]

\* C9 witness: a leading week was dropped, and a retained week carries a
\* value forward from an earlier week.
C9_Witness ==
    /\ pc1 = "done"
    /\ Len(weekly_data.index) >= 1
    /\ Len(weekly_data.index) < Len(WeeklyPanel.index)
    /\ \E w \in Range(weekly_data.index) : \E c \in Range(weekly_data.columns) :
          WeeklyPanel.data[c][w] = NaN

\* C7: the consolidated panel has a column per requested indicator and, for
\* every series, a row for each of its observations, holding that observation.
C7_OuterJoinKeepsEveryObservation ==
    pc1 \in {"save", "writing", "done"} =>
        /\ Range(all_data.columns) = Range(yf_tickers) \cup Range(fred_keys)
        /\ \A t \in Range(yf_tickers) : \A d \in yahoo.obs[t] :
              d \in Range(all_data.index) /\ all_data.data[t][d] = Quote(d)
        /\ \A k \in Range(fred_keys) : \A d \in fredsrv[fred_tickers[k]] :
              d \in Range(all_data.index) /\ all_data.data[k][d] = Quote(d)

\* C4: when the market download raises, is empty, or lacks data for a
\* requested ticker, the run stops at the download and writes no artifact.
C4_MarketFailureIsFatal ==
    (yahoo.raises \/ \E t \in Range(yf_tickers) : yahoo.obs[t] = {}) =>
        /\ pc1 \in {"download_yf", "exited"}
        /\ ~files[CleanedPath].exists

----------------------------------------------------------------------------
(* Claims about the hand-over *)

\* what a reader gets from the completely written stage 1 artifact
CompleteArtifact == CsvFrame(CsvOf(weekly_data))

\* C8: a reader of cleaned_market_data.csv finds no file or the whole table,
\* and a stage interrupted during its write leaves no file behind.
C8_ArtifactWrittenAtomically ==
    /\ pc2 # "load" =>
          \/ error2.kind = "FileNotFoundError"
          \/ error2.kind # "EmptyDataError" /\ Stage1Cleaned /\ df = CompleteArtifact
    /\ pc1 = "failed" => ~files[CleanedPath].exists

\* C10: stage 2, run on the artifact a completed stage 1 persisted, finds all
\* the columns it selects.
C10_PipelineComposes ==
    (/\ pc1 = "done"
     /\ pc2 \notin {"load", "select"}
     /\ error2.kind \notin {"FileNotFoundError", "EmptyDataError"}
     /\ df = CompleteArtifact) =>
        /\ pc2 # "failed"
        /\ Range(risk_factor_cols) \subseteq Range(files[CleanedPath].header[1])

----------------------------------------------------------------------------
(* Claims about stage 2 *)

Stage2Rescaled == pc2 \in {"save", "writing", "done"}

\* the columns the artifact given to stage 2 lacks
ArtifactLacks ==
    {k \in Range(risk_factor_cols) : k \notin Range(files[CleanedPath].header[1])}

\* C6: with a risk-factor column missing from the artifact, stage 2 stops at
\* column selection with an error naming exactly the missing columns; nothing
\* later has run and no final artifact is written.
C6_MissingColumnFailsAtSelection ==
    (pc2 \notin {"load", "select"} /\ ArtifactLacks # {}) =>
        /\ pc2 = "failed"
        /\ error2 = [kind |-> "KeyError", labels |-> ArtifactLacks]
        /\ risk_factors = EmptyFrame
        /\ scaled_factors = NoScaled
        /\ loadings = <<>>
        /\ sri_raw = NoScores
        /\ sri_scaled = <<>>
        /\ ~files[FinalPath].exists

\* C6 witness: the run stopped at selection, some but not all columns missing.
C6_Witness ==
    /\ pc2 = "failed"
    /\ error2.kind = "KeyError"
    /\ Cardinality(error2.labels) = 1
    /\ Len(df.index) > 0

ScoreMin == MinOf(Range(sri_raw.num))
ScoreMax == MaxOf(Range(sri_raw.num))

\* C3: for a latent factor with max > min, SRI = 100 * (x - lo) / (hi - lo):
\* every value within [0, 100], the minimum 0, the maximum 100, the order of
\* the rows kept; it is the column added to df and the one persisted.
C3_RescaleAffineBounds ==
    (Stage2Rescaled /\ ScoreMax > ScoreMin) =>
        LET x == sri_raw.num
            y == sri_scaled
        IN  /\ DOMAIN y = DOMAIN x
            /\ \A i \in DOMAIN y :
                  /\ y[i].den > 0
                  /\ y[i].num * (ScoreMax - ScoreMin) = 100 * (x[i] - ScoreMin) * y[i].den
                  /\ 0 <= y[i].num /\ y[i].num <= 100 * y[i].den
                  /\ df.data["SRI"][df.index[i]] = y[i]
            /\ \E i \in DOMAIN y : y[i].num = 0
            /\ \E i \in DOMAIN y : y[i].num = 100 * y[i].den
            /\ \A i, j \in DOMAIN y :
                  (x[i] < x[j]) <=> (y[i].num * y[j].den < y[j].num * y[i].den)
            /\ pc2 = "done" =>
                  \A i \in DOMAIN y : files[FinalPath].rows[i].cells["SRI"] = y[i]

\* C3 witness: a persisted index with a value strictly between 0 and 100.
C3_Witness ==
    /\ pc2 = "done"
    /\ ScoreMax > ScoreMin
    /\ \E i \in DOMAIN sri_scaled :
          0 < sri_scaled[i].num /\ sri_scaled[i].num < 100 * sri_scaled[i].den

\* C2: the SRI that is persisted is computed from a factor whose loading on
\* the reference column is >= 0.
C2_ReferenceLoadingNonNegative ==
    Stage2Rescaled => loadings[ReferenceCol].sgn >= 0

\* a selected column that is constant over the sample
ConstantColumn ==
    /\ pc2 \notin {"load", "select", "standardize"}
    /\ Len(risk_factors.index) > 0
    /\ \E c \in Range(risk_factor_cols) : VarNum(risk_factors, c) = 0

\* a latent factor whose maximum equals its minimum
ZeroRange == Stage2Rescaled /\ ScoreMax = ScoreMin

\* C5: a zero-variance column or a zero-range latent factor ends the run in
\* a DegenerateStatistic failure; no SRI is computed, no final artifact written.
C5_DegenerateStatisticDetected ==
    (ConstantColumn \/ ZeroRange) =>
        /\ pc2 = "failed"
        /\ error2.kind = "DegenerateStatistic"
        /\ sri_scaled = <<>>
        /\ ~files[FinalPath].exists

====
